---- MODULE Spec2Model ----
(***************************************************************************)
(* Model of pygbm: GBM_setup (src/pygbm/base.py) and GBM_simulator         *)
(* (src/pygbm/simulator.py).                                               *)
(*                                                                         *)
(* Numbers.  The program computes in float64.  A float of the model is a   *)
(* triple <<n, d, k>> standing for (n/d) * eps^k, with eps = 2^-120, n/d a *)
(* rational in lowest terms, d > 0; zero is <<0, 1, 0>> and <<0, 0, 0>> is *)
(* NaN, which every arithmetic operation propagates.  In every number the  *)
(* model reaches d is a power of two, n and d are below 2^31 in magnitude  *)
(* and k is between 0 and 2, so that float64 arithmetic on these numbers   *)
(* is the following:                                                       *)
(*   - a product or a quotient is exact: (n/d)*(n'/d') * eps^(k+k');       *)
(*   - a sum of two numbers of the same k is exact;                        *)
(*   - a sum of two non-zero numbers of different k is the one of smaller  *)
(*     k: the other is less than half a unit in its last place and is      *)
(*     rounded away (1.0 + 2^-120 = 1.0).                                  *)
(* A value of a path is a record [c |-> float, e |-> float] standing for   *)
(* c * exp(e); e = 0 for a value computed without np.exp.                  *)
(***************************************************************************)
EXTENDS Integers, Sequences, FiniteSets

VARIABLES self, call, seen, entropy

vars == <<self, call, seen, entropy>>

(***************************************************************************)
(* Bounds of the model.                                                    *)
(***************************************************************************)
MaxN == 3

MaxMethods == 3

MaxSeen == 2

(***************************************************************************)
(* float64 arithmetic on the numbers of the model.                         *)
(***************************************************************************)
Abs(n) == IF n < 0 THEN -n ELSE n

RECURSIVE GCD(_, _)
GCD(a, b) == IF b = 0 THEN a ELSE GCD(b, a % b)

NaN == <<0, 0, 0>>

\* (n/d) * eps^k in normal form
Num(n, d, k) ==
  IF d = 0 THEN NaN
  ELSE IF n = 0 THEN <<0, 1, 0>>
  ELSE LET g == GCD(Abs(n), Abs(d))
           s == IF d < 0 THEN -1 ELSE 1
       IN  <<(s * n) \div g, (s * d) \div g, k>>

Rat(n, d) == Num(n, d, 0)

FromInt(n) == <<n, 1, 0>>

Zero == FromInt(0)

One == FromInt(1)

Half == <<1, 2, 0>>

\* eps = 2^-120
Tiny == <<1, 1, 1>>

IsNaN(x) == x[2] = 0

Neg(x) == <<-x[1], x[2], x[3]>>

Add(x, y) == IF IsNaN(x) \/ IsNaN(y) THEN NaN
             ELSE IF x[1] = 0 THEN y
             ELSE IF y[1] = 0 THEN x
             ELSE IF x[3] = y[3]
               THEN Num(x[1] * y[2] + y[1] * x[2], x[2] * y[2], x[3])
             ELSE IF x[3] < y[3] THEN x
             ELSE y

Sub(x, y) == Add(x, Neg(y))

Mul(x, y) == IF IsNaN(x) \/ IsNaN(y) THEN NaN
             ELSE Num(x[1] * y[1], x[2] * y[2], x[3] + y[3])

\* x / y for y # 0 (every division of the program by zero raises before it
\* is evaluated, see simulate_path and simulate_compare).
Div(x, y) == IF IsNaN(x) \/ IsNaN(y) THEN NaN
             ELSE Num(x[1] * y[2], x[2] * y[1], x[3] - y[3])

\* x < y; false when either side is NaN, as for floats.  x - y is negative
\* exactly when x < y, rounded or not.
Lt(x, y) == ~IsNaN(x) /\ ~IsNaN(y) /\ Sub(x, y)[1] < 0

Le(x, y) == ~IsNaN(x) /\ ~IsNaN(y) /\ Sub(x, y)[1] <= 0

Signbit(x) == ~IsNaN(x) /\ x[1] < 0

\* int(x): truncation toward zero.
Trunc(x) == IF x[3] > 0 THEN 0
            ELSE IF x[1] >= 0 THEN x[1] \div x[2]
            ELSE -((-x[1]) \div x[2])

\* np.sqrt on the numbers the model draws for dt (0 and the squares of
\* Roots); the square root of a negative number is NaN.
Roots == {Rat(1, 2), One, Rat(3, 2)}

RootCandidates == Roots \cup {Zero}

Sqrt(x) == IF IsNaN(x) \/ x[1] < 0 THEN NaN
           ELSE CHOOSE r \in RootCandidates : Mul(r, r) = x

(***************************************************************************)
(* Values c * exp(e).                                                      *)
(***************************************************************************)
Val(c, e) == IF IsNaN(c) \/ IsNaN(e) THEN [c |-> NaN, e |-> Zero]
             ELSE IF c = Zero THEN [c |-> Zero, e |-> Zero]
             ELSE [c |-> c, e |-> e]

Plain(c) == Val(c, Zero)

\* c * np.exp(x); np.exp of a number below 2^-54 in magnitude is
\* 1.0
TimesExp(c, x) == IF ~IsNaN(x) /\ x[3] > 0 THEN Val(c, Zero) ELSE Val(c, x)

(***************************************************************************)
(* numpy array operations used by the simulator.                           *)
(***************************************************************************)
\* np.linspace(0, stop, num) for num >= 0 (num < 0 raises, see build_driver).
linspace(stop, num) ==
  [i \in 1..num |->
     IF num = 1 THEN Zero
     ELSE Mul(FromInt(i - 1), Div(stop, FromInt(num - 1)))]

RECURSIVE SumTo(_, _)
SumTo(x, i) == IF i = 0 THEN Zero ELSE Add(SumTo(x, i - 1), x[i])

\* np.cumsum(x)
cumsum(x) == [i \in 1..Len(x) |-> SumTo(x, i)]

\* np.diff(x)
diff(x) == [i \in 1..(IF Len(x) = 0 THEN 0 ELSE Len(x) - 1) |-> Sub(x[i + 1], x[i])]

\* np.insert(x, 0, v)
insert0(x, v) == <<v>> \o x

(***************************************************************************)
(* The random generator.  numpy's PCG64 is abstracted to a full-period     *)
(* congruential generator on 8 states: what the simulator relies on is     *)
(* that a generator is an object built per call, that its state advances   *)
(* with every variate drawn, that its stream is a function of the seed,    *)
(* and that an omitted seed takes its state from the entropy of the        *)
(* operating system.  A seed is <<k>>, or <<>> for None.                   *)
(***************************************************************************)
NoSeed == <<>>

GenNext(s) == (5 * s + 1) % 8

RECURSIVE GenAt(_, _)
GenAt(s, i) == IF i = 0 THEN s ELSE GenNext(GenAt(s, i - 1))

\* the standard normal variate produced from a generator state: a float of
\* ordinary magnitude (here -2.0 .. 2.0), or one so small (2^-120) that it
\* is lost when added to a float of ordinary magnitude
GenOut(s) == IF s = 7 THEN Tiny ELSE FromInt((s % 5) - 2)

\* the entropy of the operating system: every read finds it changed
Entropy == {0, 1}

Consume(e) == (e + 1) % Cardinality(Entropy)

\* variant: the generator seeded from entropy whatever seed is passed
default_rng_unseeded(seed, e) == e

\* np.random.default_rng(seed): the state of a new generator; e is the
\* entropy read when seed is None
default_rng(seed, e) == IF seed = NoSeed THEN e ELSE seed[1] % 8

\* rng.normal(0, scale, size=size) for size >= 0: the variates loc + scale*z_i
\* drawn from the generator in state gen
normal(gen, scale, size) ==
  [i \in 1..size |-> Mul(scale, GenOut(GenAt(gen, i)))]

\* the state of the generator after size variates were drawn
drawn(gen, size) == GenAt(gen, size)

(***************************************************************************)
(* The simulator object: GBM_setup.__init__ / GBM_simulator.__init__.      *)
(***************************************************************************)
GBM_setup(y0, mu, sigma) == [y0 |-> y0, mu |-> mu, sigma |-> sigma]

GBM_simulator(y0, mu, sigma) == GBM_setup(y0, mu, sigma)

(***************************************************************************)
(* The three schemes.  Each returns <<t_values, y_values>>.                *)
(***************************************************************************)
exact_value(obj, t, b) ==
  TimesExp(obj.y0,
           Add(Mul(Sub(obj.mu, Mul(Half, Mul(obj.sigma, obj.sigma))), t),
               Mul(obj.sigma, b)))

\* variant: y0 not put in front of the values
exact_method_no_insert(obj, t_values, B_values) ==
  <<t_values,
    [i \in 1..Len(B_values) |->
       exact_value(obj, t_values[i + 1], B_values[i])]>>

\* variant: returns t_values[1:] with the N values computed, y0 not put in
\* front
exact_method_drops_t0(obj, t_values, B_values) ==
  <<[i \in 1..(Len(t_values) - 1) |-> t_values[i + 1]],
    [i \in 1..Len(B_values) |->
       exact_value(obj, t_values[Len(t_values) - Len(B_values) + i],
                   B_values[i])]>>

exact_method(obj, t_values, B_values) ==
  <<t_values,
    insert0([i \in 1..Len(B_values) |->
               exact_value(obj, t_values[i + 1], B_values[i])],
            Plain(obj.y0))>>

\* dt = t_values[-1]/(len(t_values)-1)
grid_dt(t_values) == Div(t_values[Len(t_values)], FromInt(Len(t_values) - 1))

\* variant: the cumulative values taken for the increments
increments_cumulative(B_values) == B_values

\* variant: the first increment, B_values[0], not put in front
increments_no_prepend(B_values) == diff(B_values)

\* dB_values = np.insert(np.diff(B_values), 0, [B_values[0]], axis=0)
increments(B_values) == insert0(diff(B_values), B_values[1])

\* variant: the drift term not scaled by dt
euler_step_no_dt(obj, y_pre, dt, dB) ==
  Add(Add(y_pre, Mul(y_pre, obj.mu)), Mul(Mul(obj.sigma, y_pre), dB))

\* y_pre + y_pre*mu*dt + sigma*y_pre*dB
euler_step(obj, y_pre, dt, dB) ==
  Add(Add(y_pre, Mul(Mul(y_pre, obj.mu), dt)), Mul(Mul(obj.sigma, y_pre), dB))

\* y_pre + y_pre*mu*dt + sigma*y_pre*dB + 0.5*(sigma**2)*y_pre*(dB**2-dt)
milstein_step(obj, y_pre, dt, dB) ==
  Add(Add(Add(y_pre, Mul(Mul(y_pre, obj.mu), dt)),
          Mul(Mul(obj.sigma, y_pre), dB)),
      Mul(Mul(Mul(Half, Mul(obj.sigma, obj.sigma)), y_pre),
          Sub(Mul(dB, dB), dt)))

\* for dB in dB_values: y_values.append(step(y_values[-1]))
RECURSIVE euler_loop(_, _, _, _)
euler_loop(obj, dt, dB_values, y_values) ==
  IF dB_values = <<>> THEN y_values
  ELSE euler_loop(obj, dt, Tail(dB_values),
                  Append(y_values,
                         euler_step(obj, y_values[Len(y_values)], dt,
                                    Head(dB_values))))

RECURSIVE milstein_loop(_, _, _, _)
milstein_loop(obj, dt, dB_values, y_values) ==
  IF dB_values = <<>> THEN y_values
  ELSE milstein_loop(obj, dt, Tail(dB_values),
                     Append(y_values,
                            milstein_step(obj, y_values[Len(y_values)], dt,
                                          Head(dB_values))))

\* np.array(y_values)
AsValues(ys) == [i \in 1..Len(ys) |-> Plain(ys[i])]

euler_method(obj, t_values, B_values) ==
  <<t_values,
    AsValues(euler_loop(obj, grid_dt(t_values), increments(B_values),
                        <<obj.y0>>))>>

milstein_method(obj, t_values, B_values) ==
  <<t_values,
    AsValues(milstein_loop(obj, grid_dt(t_values), increments(B_values),
                           <<obj.y0>>))>>

(***************************************************************************)
(* The record of a call: its arguments, the driver it built, the functions *)
(* it applied to the driver, the lines it handed to pyplot, its outcome.   *)
(* rng is the call's local generator: <<>> before it is built, <<state>>   *)
(* after.                                                                  *)
(***************************************************************************)
NoCall(op, T, N, seed, methods) ==
  [op |-> op, T |-> T, N |-> N, seed |-> seed, methods |-> methods,
   status |-> "idle", error |-> "",
   built |-> FALSE, t |-> <<>>, dt |-> Zero, rng |-> <<>>,
   dB |-> <<>>, B |-> <<>>,
   applied |-> <<>>, plotted |-> <<>>, t_out |-> <<>>, y |-> <<>>]

Idle == NoCall("none", Zero, 0, NoSeed, <<>>)

Raise(c, error) == [c EXCEPT !.status = "raised", !.error = error]

\* The random driver of simulate_path (lines 107-111) and of
\* simulate_compare (lines 147-151): the two differ in the grid only, which
\* ends at stop = T with num = N+1 points in the first and at stop = int(T)
\* with num = int(N+1) points in the second.  The steps raise in the order
\* of the code: linspace (num < 0), T/N (N = 0), normal (scale < 0, size < 0).
build_driver(c, stop, num, e) ==
  IF num < 0 THEN Raise(c, "ValueError")
  ELSE IF c.N = 0 THEN Raise(c, "ZeroDivisionError")
  ELSE LET dt    == Div(c.T, FromInt(c.N))
           rng   == default_rng(c.seed, e)
           scale == Sqrt(dt)
       IN  IF Signbit(scale) \/ c.N < 0
             THEN Raise([c EXCEPT !.rng = <<rng>>], "ValueError")
           ELSE LET dB == normal(rng, scale, c.N)
                IN  [c EXCEPT !.built = TRUE, !.t = linspace(stop, num),
                              !.dt = dt, !.rng = <<drawn(rng, c.N)>>,
                              !.dB = dB, !.B = cumsum(dB)]

(***************************************************************************)
(* pyplot, reduced to what the simulator's control flow depends on:        *)
(* plt.plot(x, y) raises ValueError when x and y differ in length and adds *)
(* a line otherwise.                                                       *)
(***************************************************************************)
plot_raises(x, y) == Len(x) # Len(y)

\* plot_path(t_values, y_values): raises inside plt.plot, or returns None
plot_path_error(t_values, y_values) ==
  IF plot_raises(t_values, y_values) THEN "ValueError" ELSE "TypeError"

(***************************************************************************)
(* getattr(self, method)(t_values, B_values).                              *)
(* Result: [error, called, t, y]; called says whether a function of        *)
(* simulator.py was entered with the driver as its arguments.              *)
(***************************************************************************)
Schemes == {"exact_method", "euler_method", "milstein_method"}

DataAttributes == {"y0", "mu", "sigma"}

\* the names every object inherits from object and from its class
Dunders ==
  {"__class__", "__delattr__", "__dict__", "__dir__", "__doc__", "__eq__",
   "__format__", "__ge__", "__getattribute__", "__getstate__", "__gt__",
   "__hash__", "__init__", "__init_subclass__", "__le__", "__lt__",
   "__module__", "__ne__", "__new__", "__reduce__", "__reduce_ex__",
   "__repr__", "__setattr__", "__sizeof__", "__str__", "__subclasshook__",
   "__weakref__"}

\* dir(GBM_simulator(y0, mu, sigma))
Attributes ==
  Schemes \cup DataAttributes
    \cup {"simulate_path", "plot_path", "simulate_compare"} \cup Dunders

Applied(error, called, t, y) ==
  [error |-> error, called |-> called, t |-> t, y |-> y]

apply_method(obj, method, t_values, B_values) ==
  IF method \notin Attributes
    THEN Applied("AttributeError", FALSE, <<>>, <<>>)
  ELSE IF method \in DataAttributes
    \* a float is not callable
    THEN Applied("TypeError", FALSE, <<>>, <<>>)
  ELSE IF method = "simulate_compare"
    \* simulate_compare(T=t_values, N=B_values): the required argument seed
    \* is missing, the call fails before the body is entered
    THEN Applied("TypeError", FALSE, <<>>, <<>>)
  ELSE IF method \in Dunders
    \* not callable (__dict__, __doc__, __module__, __weakref__), or two
    \* arrays are not its arguments (__init__ and __class__ miss sigma,
    \* the others take fewer or other arguments), or, for __subclasshook__,
    \* the NotImplemented it returns is not a pair
    THEN Applied("TypeError", FALSE, <<>>, <<>>)
  ELSE IF method = "plot_path"
    \* plt.plot(t_values, B_values); were it to return, None is not a pair
    THEN Applied(plot_path_error(t_values, B_values), TRUE, <<>>, <<>>)
  ELSE IF method = "simulate_path"
    \* simulate_path(T=t_values, N=B_values): np.linspace refuses an array
    \* of floats as its number of points
    THEN Applied("TypeError", TRUE, <<>>, <<>>)
  ELSE LET r == IF method = "exact_method"
                  THEN exact_method(obj, t_values, B_values)
                ELSE IF method = "euler_method"
                  THEN euler_method(obj, t_values, B_values)
                ELSE milstein_method(obj, t_values, B_values)
       IN  Applied("", TRUE, r[1], r[2])

(***************************************************************************)
(* simulate_path(T, N, method, seed)                                       *)
(***************************************************************************)
simulate_path(obj, T, N, method, seed, e) ==
  LET c0 == NoCall("simulate_path", T, N, seed, <<method>>)
      c  == build_driver(c0, T, N + 1, e)
  IN  IF ~c.built THEN c
      ELSE LET r == apply_method(obj, method, c.t, c.B)
               a == IF r.called THEN <<method>> ELSE <<>>
           IN  IF r.error # ""
                 THEN Raise([c EXCEPT !.applied = a], r.error)
               ELSE [c EXCEPT !.applied = a, !.status = "returned",
                              !.t_out = r.t, !.y = r.y]

(***************************************************************************)
(* simulate_compare(T, N, seed, methods)                                   *)
(***************************************************************************)
\* one line of the figure: plt.plot(t_values, y_values, label = method)
Line(label, t_values, y_values) ==
  [label |-> label, t |-> t_values, y |-> y_values]

\* for method in methods: ... ; c.t_out is the loop's variable t_values,
\* rebound to what each scheme returns
RECURSIVE compare_loop(_, _, _)
compare_loop(obj, c, methods) ==
  IF methods = <<>> THEN [c EXCEPT !.status = "returned"]
  ELSE LET method == Head(methods)
           r == apply_method(obj, method, c.t_out, c.B)
           a == IF r.called THEN Append(c.applied, method) ELSE c.applied
       IN  IF r.error # ""
             THEN Raise([c EXCEPT !.applied = a], r.error)
           ELSE IF plot_raises(r.t, r.y)
             THEN Raise([c EXCEPT !.applied = a, !.t_out = r.t, !.y = r.y],
                        "ValueError")
           ELSE compare_loop(obj,
                  [c EXCEPT !.applied = a, !.t_out = r.t, !.y = r.y,
                            !.plotted = Append(c.plotted,
                                               Line(method, r.t, r.y))],
                  Tail(methods))

simulate_compare(obj, T, N, seed, methods, e) ==
  LET c0 == NoCall("simulate_compare", T, N, seed, methods)
      c  == build_driver(c0, FromInt(Trunc(T)), N + 1, e)
  IN  IF ~c.built THEN c
      ELSE compare_loop(obj, [c EXCEPT !.t_out = c.t], methods)

(***************************************************************************)
(* Inputs.                                                                 *)
(***************************************************************************)
\* the initial value may be zero or negative
Y0Values == {FromInt(-1), Zero, FromInt(2)}

MuValues == {Zero, One}

SigmaValues == {Zero, One}

Objects == {GBM_simulator(y0, mu, sigma) :
              y0 \in Y0Values, mu \in MuValues, sigma \in SigmaValues}

\* T/N is the square of one of Roots, so that its square root is rational
HorizonsFor(N) == {Mul(Mul(r, r), FromInt(N)) : r \in Roots}

\* simulate_path: valid and invalid discretizations
PathN == (-2)..MaxN

PathT(N) == IF N >= 1 THEN HorizonsFor(N) \cup {Zero, FromInt(-N)}
            ELSE {One, Zero, FromInt(-1)}

PathNames ==
  Schemes \cup {"plot_path", "simulate_path", "simulate_compare", "__init__",
                "y0", "rk4"}

\* simulate_compare
CompareN == 0..MaxN

CompareT(N) == IF N >= 1 THEN HorizonsFor(N) ELSE {One}

CompareNames == Schemes \cup {"rk4"}

MethodLists == UNION {[1..n -> CompareNames] : n \in 0..MaxMethods}

Seeds == {<<1>>, <<2>>}

SeedInputs == Seeds \cup {NoSeed}

CompareSeeds == {<<1>>, NoSeed}

(***************************************************************************)
(* Actions.                                                                *)
(***************************************************************************)
Init ==
  /\ self \in Objects
  /\ call = Idle
  /\ seen = <<>>
  /\ entropy \in Entropy

\* The program is single-threaded and synchronous: a call is made when no
\* call is under way, and the caller receives its outcome (the returned pair
\* or the exception) before it does anything else.
Ready == call.status = "idle"

\* the entropy after call c: read, and so changed, when c built its
\* generator with no seed
EntropyAfter(c) ==
  IF c.seed = NoSeed /\ c.rng # <<>> THEN Consume(entropy) ELSE entropy

\* GBM_simulator(y0, mu, sigma): a simulator object is constructed
Construct ==
  /\ Ready
  /\ \E y0 \in Y0Values, mu \in MuValues, sigma \in SigmaValues :
       self' = GBM_simulator(y0, mu, sigma)
  /\ call' = Idle
  /\ UNCHANGED <<seen, entropy>>

SimulatePath ==
  /\ Ready
  /\ \E N \in PathN, method \in PathNames, seed \in SeedInputs :
       \E T \in PathT(N) :
         LET c == simulate_path(self, T, N, method, seed, entropy)
         IN  call' = c /\ entropy' = EntropyAfter(c)
  /\ UNCHANGED <<self, seen>>

SimulateCompare ==
  /\ Ready
  /\ \E N \in CompareN, methods \in MethodLists, seed \in CompareSeeds :
       \E T \in CompareT(N) :
         LET c == simulate_compare(self, T, N, seed, methods, entropy)
         IN  call' = c /\ entropy' = EntropyAfter(c)
  /\ UNCHANGED <<self, seen>>

\* the caller has received the outcome of the call
Collect ==
  /\ ~Ready
  /\ call' = Idle
  /\ UNCHANGED <<self, seen, entropy>>

Next == Construct \/ SimulatePath \/ SimulateCompare \/ Collect

Spec == Init /\ [][Next]_vars

(***************************************************************************)
(* A second specification, for statements about several calls: the calls   *)
(* are drawn from a smaller set of inputs, and seen is the log of the      *)
(* first MaxSeen calls made, in order, each with the object it was made on *)
(* and with its outcome.                                                   *)
(***************************************************************************)
RepeatObjects == {GBM_simulator(One, mu, One) : mu \in MuValues}

RepeatN == {2}

RepeatMethods == {"exact_method", "euler_method"}

Remembered(obj, c) == [obj |-> obj, call |-> c]

Remember(obj, c) ==
  IF Len(seen) < MaxSeen THEN Append(seen, Remembered(obj, c)) ELSE seen

RepeatInit ==
  /\ self \in RepeatObjects
  /\ call = Idle
  /\ seen = <<>>
  /\ entropy \in Entropy

RepeatConstruct ==
  /\ Ready
  /\ self' \in RepeatObjects
  /\ call' = Idle
  /\ UNCHANGED <<seen, entropy>>

RepeatSimulatePath ==
  /\ Ready
  /\ \E N \in RepeatN, method \in RepeatMethods, seed \in SeedInputs :
       LET c == simulate_path(self, FromInt(N), N, method, seed, entropy)
       IN  /\ call' = c
           /\ entropy' = EntropyAfter(c)
           /\ seen' = Remember(self, c)
  /\ UNCHANGED self

RepeatSimulateCompare ==
  /\ Ready
  /\ \E N \in RepeatN :
       LET c == simulate_compare(self, FromInt(N), N, NoSeed,
                                 <<"exact_method", "euler_method">>, entropy)
       IN  /\ call' = c
           /\ entropy' = EntropyAfter(c)
           /\ seen' = Remember(self, c)
  /\ UNCHANGED self

RepeatNext ==
  RepeatConstruct \/ RepeatSimulatePath \/ RepeatSimulateCompare \/ Collect

SpecRepeat == RepeatInit /\ [][RepeatNext]_vars

(***************************************************************************)
(* Properties.                                                             *)
(***************************************************************************)
PathCall == call.op = "simulate_path"

CompareCall == call.op = "simulate_compare"

Returned == call.status = "returned"

Raised == call.status = "raised"

\* a valid discretization: N >= 1 and T > 0
Valid == call.N >= 1 /\ Lt(Zero, call.T)

OnlySchemes(methods) == \A k \in 1..Len(methods) : methods[k] \in Schemes

RECURSIVE Pow(_, _)
Pow(x, n) == IF n = 0 THEN One ELSE Mul(x, Pow(x, n - 1))

\* the step size a scheme derives from the grid it is given
StepSize(t_values) ==
  Div(t_values[Len(t_values)], FromInt(Len(t_values) - 1))

\* the correction term of Milstein: 0.5*sigma^2*Y*(dB^2 - dt)
Correction(sigma, Y, dt, dB) ==
  Mul(Mul(Mul(Half, Mul(sigma, sigma)), Y), Sub(Mul(dB, dB), dt))

\* Y + mu*Y*dt + sigma*Y*dB
EulerUpdate(mu, sigma, Y, dt, dB) ==
  Add(Add(Y, Mul(Mul(mu, Y), dt)), Mul(Mul(sigma, Y), dB))

\* C1: in simulate_compare one driver is built per call, and every line
\* handed to the plot is the scheme of that position applied to the grid
\* and to the cumulative sample of that one driver, whatever was applied
\* before it; a list of scheme names is applied completely.
ThmC1_SharedDriver ==
  (CompareCall /\ call.built /\ OnlySchemes(call.methods)) =>
    /\ Returned
    /\ call.B = cumsum(call.dB)
    /\ Len(call.plotted) = Len(call.methods)
    /\ \A k \in 1..Len(call.plotted) :
         LET l == call.plotted[k]
         IN  /\ l.label = call.methods[k]
             /\ l.t = call.t
             /\ l.y = apply_method(self, l.label, call.t, call.B).y
             /\ \A j \in 1..Len(call.plotted) :
                  call.plotted[j].label = l.label => call.plotted[j].y = l.y

WitC1_SharedDriver ==
  /\ CompareCall /\ Returned
  /\ call.methods = <<"euler_method", "exact_method", "milstein_method">>
  /\ call.N >= 2
  /\ self.sigma # Zero
  /\ Len(call.plotted) = 3
  /\ call.plotted[1].y # call.plotted[3].y
  /\ call.plotted[2].y # call.plotted[3].y

\* C2 (as claimed): a method name outside {exact_method, euler_method,
\* milstein_method} is rejected with an error, no function is applied to
\* the driver and no path is returned or plotted for it.
CexC2_UnknownSchemeRejected ==
  (call.op # "none" /\ ~OnlySchemes(call.methods)) =>
    /\ Raised
    /\ OnlySchemes(call.applied)
    /\ PathCall => (call.applied = <<>> /\ call.y = <<>>)

\* C3 (as claimed): simulate_path with N <= 0 or T <= 0 fails, never returns
\* a path, and the failure is not a division by zero.
CexC3_InvalidDiscretizationRejected ==
  (PathCall /\ (call.N <= 0 \/ Le(call.T, Zero))) =>
    /\ Raised
    /\ call.error # "ZeroDivisionError"
    /\ call.y = <<>>

\* C4: for each of the three schemes and every valid (T, N, seed), the first
\* element of the value sequence returned by simulate_path is y0 itself.
ThmC4_InitialValue ==
  (PathCall /\ Returned /\ Valid /\ OnlySchemes(call.methods)) =>
    /\ Len(call.y) >= 1
    /\ call.y[1] = [c |-> self.y0, e |-> Zero]

WitC4_InitialValue ==
  /\ PathCall /\ Returned /\ Valid
  /\ call.methods = <<"exact_method">>
  /\ self.y0 = FromInt(2)
  /\ self.sigma # Zero /\ self.mu # Zero
  /\ call.y[1] = [c |-> FromInt(2), e |-> Zero]
  /\ call.y[2] # call.y[1]

\* C5: for every valid (T, N) and each of the three schemes, simulate_path
\* returns a time grid of N+1 elements and a value sequence of N+1 elements,
\* the Brownian sample having N elements.
ThmC5_Shape ==
  (PathCall /\ call.status # "idle" /\ Valid /\ OnlySchemes(call.methods)) =>
    /\ Returned
    /\ Len(call.t_out) = call.N + 1
    /\ Len(call.y) = call.N + 1
    /\ Len(call.B) = call.N
    /\ Len(call.dB) = call.N

WitC5_Shape ==
  /\ PathCall /\ Returned /\ Valid
  /\ call.methods = <<"milstein_method">>
  /\ call.N = MaxN
  /\ Len(call.y) = MaxN + 1
  /\ Len(call.t_out) = MaxN + 1

\* C6 (as claimed): with sigma = 0 all three schemes return
\* y0*exp(mu*t_i) at every grid point.
CexC6_ZeroDiffusionExponential ==
  (PathCall /\ Returned /\ Valid /\ OnlySchemes(call.methods)
     /\ self.sigma = Zero) =>
    \A i \in 1..Len(call.y) :
      call.y[i] = TimesExp(self.y0, Mul(self.mu, call.t_out[i]))

\* what C6 (amended) says of one path on the grid t_values
ZeroDiffusionPath(method, t_values, y_values) ==
  \A i \in 1..Len(y_values) :
    /\ method = "exact_method" =>
         y_values[i] = TimesExp(self.y0, Mul(self.mu, t_values[i]))
    /\ method # "exact_method" =>
         y_values[i] =
           Plain(Mul(self.y0,
                     Pow(Add(One, Mul(self.mu, StepSize(t_values))), i - 1)))
    /\ self.mu = Zero => y_values[i] = [c |-> self.y0, e |-> Zero]

\* C6 (amended): with sigma = 0 the exact scheme returns y0*exp(mu*t_i) at
\* every grid point, Euler and Milstein both return the compounded
\* y0*(1 + mu*dt)^i, dt being the step of the grid (T/N in simulate_path),
\* and with mu = 0 as well every scheme returns the constant y0; the same
\* holds of every path simulate_compare plots, on the grid of that call.
ThmC6_ZeroDiffusion ==
  /\ (PathCall /\ Returned /\ Valid /\ OnlySchemes(call.methods)
        /\ self.sigma = Zero) =>
       /\ Len(call.y) = call.N + 1
       /\ StepSize(call.t_out) = Div(call.T, FromInt(call.N))
       /\ ZeroDiffusionPath(call.methods[1], call.t_out, call.y)
  /\ (CompareCall /\ Valid /\ self.sigma = Zero) =>
       \A k \in 1..Len(call.plotted) :
         /\ Len(call.plotted[k].y) = call.N + 1
         /\ ZeroDiffusionPath(call.plotted[k].label, call.plotted[k].t,
                              call.plotted[k].y)

WitC6_ZeroDiffusion ==
  /\ PathCall /\ Returned /\ Valid
  /\ call.methods = <<"euler_method">>
  /\ self.sigma = Zero /\ self.mu = One /\ self.y0 = FromInt(2)
  /\ call.N = 2 /\ call.T = Half
  /\ call.y[3] = Plain(Rat(25, 8))

\* the calls made so far, in order, as far as the model remembers them: the
\* log, and the call under way when the log is full
History ==
  IF call.op = "none" \/ (Len(seen) > 0 /\ seen[Len(seen)].call = call
                            /\ seen[Len(seen)].obj = self)
    THEN seen
  ELSE Append(seen, Remembered(self, call))

\* a seeded simulate_path call that returned
SeededPath(r) ==
  /\ r.call.op = "simulate_path"
  /\ r.call.status = "returned"
  /\ r.call.seed # NoSeed

\* two calls made with the same parameters, T, N, method and seed
SameArguments(r1, r2) ==
  /\ r1.obj = r2.obj
  /\ r1.call.T = r2.call.T /\ r1.call.N = r2.call.N
  /\ r1.call.methods = r2.call.methods /\ r1.call.seed = r2.call.seed

\* C7: two seeded simulate_path calls with the same parameters, T, N, method
\* and seed return the same time grid and the same value sequence, whatever
\* calls were made before the first and between the two, and whatever the
\* entropy of the system was at each.
ThmC7_Determinism ==
  \A i \in 1..Len(History), j \in 1..Len(History) :
    (i < j /\ SeededPath(History[i]) /\ SeededPath(History[j])
       /\ SameArguments(History[i], History[j])) =>
      /\ History[i].call.t_out = History[j].call.t_out
      /\ History[i].call.y = History[j].call.y

\* a seeded call, then an unseeded call that read the entropy and drew
\* another sample, then the first call again
WitC7_Determinism ==
  /\ Len(seen) = 2
  /\ SeededPath(seen[1])
  /\ seen[2].call.seed = NoSeed /\ seen[2].call.rng # <<>>
  /\ seen[2].call.dB # seen[1].call.dB
  /\ PathCall /\ Returned /\ call.seed = <<2>>
  /\ call.N >= 2 /\ self.mu = One
  /\ SameArguments(seen[1], Remembered(self, call))
  /\ Len(History) = 3
  /\ call.y = seen[1].call.y
  /\ call.y[2] # call.y[3]

\* C8 (as claimed): in simulate_path and in simulate_compare, for T > 0 and
\* N >= 1, the grid built is t_i = i*T/N, from 0 to T, strictly increasing,
\* and the step size the schemes derive from it equals dt = T/N.
CexC8_GridMatchesDt ==
  (call.built /\ Valid) =>
    /\ Len(call.t) = call.N + 1
    /\ \A i \in 1..Len(call.t) :
         call.t[i] = Mul(FromInt(i - 1), Div(call.T, FromInt(call.N)))
    /\ call.t[1] = Zero
    /\ call.t[Len(call.t)] = call.T
    /\ \A i \in 1..(Len(call.t) - 1) : Lt(call.t[i], call.t[i + 1])
    /\ StepSize(call.t) = call.dt
    /\ call.dt = Div(call.T, FromInt(call.N))

\* C9 (as claimed): a simulate_compare call whose list holds an invalid
\* name fails before any scheme was applied and before any path was plotted.
CexC9_NoPartialResult ==
  (CompareCall /\ call.built /\ ~OnlySchemes(call.methods)) =>
    /\ Raised
    /\ call.applied = <<>>
    /\ call.plotted = <<>>

\* the values of one Euler or Milstein path obey the one-step update, fed
\* with the increments dB_values
Recurrence(method, t_values, y_values, dB_values) ==
  LET dt == StepSize(t_values)
  IN  /\ Len(y_values) = call.N + 1
      /\ \A i \in 1..call.N :
           LET Yi == y_values[i].c
               e  == EulerUpdate(self.mu, self.sigma, Yi, dt, dB_values[i])
               k  == Correction(self.sigma, Yi, dt, dB_values[i])
           IN  /\ y_values[i].e = Zero
               /\ method = "euler_method" => y_values[i + 1] = Plain(e)
               /\ method = "milstein_method" =>
                    y_values[i + 1] = Plain(Add(e, k))

\* every Euler and Milstein path of the call obeys the one-step update fed
\* with dB_values, and a Milstein path and an Euler path of one call, which
\* start from the same y0, differ after one step by the correction
Recurrences(dB_values) ==
  /\ (PathCall /\ Returned /\ Valid
        /\ call.methods \in {<<"euler_method">>, <<"milstein_method">>}) =>
       Recurrence(call.methods[1], call.t_out, call.y, dB_values)
  /\ (CompareCall /\ Valid) =>
       \A k \in 1..Len(call.plotted) :
         LET l == call.plotted[k]
         IN  /\ l.label \in {"euler_method", "milstein_method"} =>
                  Recurrence(l.label, l.t, l.y, dB_values)
             /\ \A j \in 1..Len(call.plotted) :
                  (l.label = "milstein_method"
                     /\ call.plotted[j].label = "euler_method") =>
                    l.y[2] =
                      Plain(Add(call.plotted[j].y[2].c,
                                Correction(self.sigma, self.y0, StepSize(l.t),
                                           dB_values[1])))

\* Euler or Milstein was applied to the driver of the call
UsesIncrements ==
  \E k \in 1..Len(call.applied) :
    call.applied[k] \in {"euler_method", "milstein_method"}

\* C10 (as claimed): in Euler and Milstein the increments rebuilt from the
\* cumulative sample are exactly the N increments drawn, in order, and value
\* i+1 is Y_i + mu*Y_i*dt + sigma*Y_i*dB_i (Euler), plus the correction
\* 0.5*sigma^2*Y_i*(dB_i^2 - dt) (Milstein), dB_i being the increment drawn.
CexC10_IncrementsExact ==
  /\ (call.built /\ Valid /\ UsesIncrements) =>
       (Len(call.dB) = call.N /\ increments(call.B) = call.dB)
  /\ Recurrences(call.dB)

\* the differences of consecutive cumulative values, the first taken from 0
Rebuilt(B_values) ==
  [i \in 1..Len(B_values) |->
     IF i = 1 THEN B_values[1] ELSE Sub(B_values[i], B_values[i - 1])]

\* no partial sum of the cumulative sample is rounded: the sum of two
\* non-zero floats that is one of the two is a rounded sum
SumsExact(dB_values, B_values) ==
  \A i \in 2..Len(dB_values) :
    \/ B_values[i - 1] = Zero
    \/ dB_values[i] = Zero
    \/ B_values[i] \notin {B_values[i - 1], dB_values[i]}

\* C10 (amended): in Euler and Milstein the N increments rebuilt from the
\* cumulative sample are the float64 differences of its consecutive values;
\* they are the N increments drawn, in order, when no partial sum of the
\* sample is rounded; value i+1 is Y_i + mu*Y_i*dt + sigma*Y_i*dB_i (Euler),
\* plus the correction 0.5*sigma^2*Y_i*(dB_i^2 - dt) (Milstein), dB_i being
\* the increment rebuilt, each sum rounded to float64.
ThmC10_Recurrence ==
  /\ (call.built /\ Valid /\ UsesIncrements) =>
       /\ Len(call.dB) = call.N
       /\ increments(call.B) = Rebuilt(call.B)
       /\ SumsExact(call.dB, call.B) => increments(call.B) = call.dB
  /\ Recurrences(Rebuilt(call.B))

\* a Milstein path over a sample of which one increment was rounded away
\* and the others were rebuilt as drawn
WitC10_Recurrence ==
  /\ PathCall /\ Returned /\ Valid
  /\ call.methods = <<"milstein_method">>
  /\ call.N = MaxN
  /\ self.sigma = One /\ self.mu = One /\ self.y0 # Zero
  /\ ~SumsExact(call.dB, call.B)
  /\ \E i \in 1..call.N : Rebuilt(call.B)[i] # call.dB[i]
  /\ \E i \in 2..call.N :
       Rebuilt(call.B)[i] = call.dB[i] /\ call.B[i] # call.dB[i]
  /\ Correction(self.sigma, call.y[2].c, StepSize(call.t), call.dB[2]) # Zero

====
